---- MODULE Spec2Model ----
(***************************************************************************)
(* A model of lftp_mirror.py: the unit formatter (best_unit_size), the     *)
(* control-script builder and the orchestration of mirror() and main(),    *)
(* and the archive rotation of compress().                                 *)
(*                                                                         *)
(* Python's unbounded integers are kept as sequences of base-1024 digits   *)
(* (most significant first), text is kept as a sequence of fragments whose *)
(* concatenation is the text, and a path is kept as the list of its        *)
(* components, path.split('/').                                            *)
(***************************************************************************)
EXTENDS Integers, Sequences, FiniteSets, TLC

VARIABLES
    bytes_size,   \* best_unit_size: the argument, base-1024 digits
    size,         \* best_unit_size: what the call returned, or NotCalled
    argv,         \* the shell-mode command line the program was started with
    args,         \* the namespace parser.parse_args() returned
    ftpscript,    \* the file 'ftpscript': its lines, or NoFile
    now,          \* the clock time.strftime reads
    gzs,          \* the *.tar.gz files of the working directory
    calls,        \* how many calls of compress() were made
    last,         \* the last call of compress(): its arguments and outcome
    pc,           \* where main() stands
    local_exists, \* whether the local directory exists
    log,          \* Logger.__log: the sections appended so far
    logfile,      \* the log file: the sections written to it
    returncode,   \* sync.returncode, once lftp has run
    mir_res,      \* what mirror() returned to main()
    exit_status,  \* the exit status of the process, once it has ended
    launches,     \* how many times lftp was started
    reindex_res,  \* reindex_cloud(): "unset", "skipped", "done" or "failed"
    send_res,     \* log.send(): "unset", "skipped", "returned" or "raised"
    sections,     \* cfg mode: the sections of the config file still to run
    done          \* the sites mirror() was called for, in order

unitVars == <<bytes_size, size>>
scriptVars == <<argv, args, ftpscript>>
rotateVars == <<now, gzs, calls, last>>
mainVars == <<pc, local_exists, log, logfile, returncode, mir_res, exit_status,
              launches, reindex_res, send_res, sections, done>>

vars == <<unitVars, scriptVars, rotateVars, mainVars>>

NotCalled == [called |-> FALSE]

\* A value not yet assigned, Python's None, and an integer
Unset == [kind |-> "unset"]
PyNone == [kind |-> "None"]
PyInt(n) == [kind |-> "int", value |-> n]

(***************************************************************************)
(* Sequence helpers.                                                       *)
(***************************************************************************)
RECURSIVE Zeros(_)
Zeros(n) == IF n = 0 THEN <<>> ELSE <<0>> \o Zeros(n - 1)

RECURSIVE StripZeros(_)
StripZeros(bits) ==
    IF bits # <<>> /\ Head(bits) = 0 THEN StripZeros(Tail(bits)) ELSE bits

(***************************************************************************)
(* best_unit_size (lines 603-619).                                         *)
(***************************************************************************)
\* The bounds of the byte counts drawn: how many base-1024 digits.
MaxDigits == 10

\* The width of a double's significand: abs(bytes_size) / pow(2.0, exp) first
\* converts the integer to a double, rounding to nearest, ties to even.
FloatMantissa == 53

\* The base-1024 digit values the inputs are drawn from.
TopDigits == {1, 1023}
LowDigits == {0, 960, 1023}

\* The ten bits of one base-1024 digit, most significant first.
DigitBits(d) == [i \in 1..10 |-> (d \div (2 ^ (10 - i))) % 2]

RECURSIVE ToBits(_)
ToBits(digits) ==
    IF digits = <<>> THEN <<>> ELSE DigitBits(Head(digits)) \o ToBits(Tail(digits))

\* bits + 1, as a bit sequence (one bit longer when every bit was 1).
RECURSIVE Increment(_)
Increment(bits) ==
    IF bits = <<>> THEN <<1>>
    ELSE LET n == Len(bits)
             init == SubSeq(bits, 1, n - 1)
         IN  IF bits[n] = 0 THEN init \o <<1>> ELSE Increment(init) \o <<0>>

\* float(n): the integer n (as bits without leading zeros) rounded to a double,
\* given again as the bits of the (integral) value.
ToFloat(bits) ==
    IF Len(bits) <= FloatMantissa THEN bits
    ELSE LET mant == SubSeq(bits, 1, FloatMantissa)
             guard == bits[FloatMantissa + 1]
             sticky == \E i \in (FloatMantissa + 2)..Len(bits) : bits[i] = 1
             up == guard = 1 /\ (sticky \/ mant[FloatMantissa] = 1)
             rounded == IF up THEN Increment(mant) ELSE mant
         IN  rounded \o Zeros(Len(bits) - FloatMantissa)

\* int(abs(bytes_size) / pow(2.0, exp)): dividing a double by a power of two is
\* exact, and int() drops the fraction: the bits above the lowest exp bits.
IntOfScaled(fbits, exp) ==
    IF Len(fbits) <= exp THEN <<>> ELSE SubSeq(fbits, 1, Len(fbits) - exp)

RECURSIVE BitsValue(_)
BitsValue(bits) ==
    IF bits = <<>> THEN 0
    ELSE 2 * BitsValue(SubSeq(bits, 1, Len(bits) - 1)) + bits[Len(bits)]

\* The dictionary of line 616-617, by exp.
Unit(exp) ==
    CASE exp = 0 -> "bytes" [] exp = 10 -> "KiB" [] exp = 20 -> "MiB"
      [] exp = 30 -> "GiB" [] exp = 40 -> "TiB" [] exp = 50 -> "PiB"
      [] exp = 60 -> "EiB" [] exp = 70 -> "ZiB" [] exp = 80 -> "YiB"

\* range(0, 90, 10)
ExpRange == {0, 10, 20, 30, 40, 50, 60, 70, 80}

\* The loop of lines 613-618: the first exp at which int(bu_size) < 2 ** 10, and
\* the result of line 619. When no exp breaks the loop, 'unit' is unbound at
\* line 619: the UnboundLocalError is caught by @logger.catch(), which logs it
\* and returns None.
best_unit_size(digits) ==
    LET fbits == ToFloat(StripZeros(ToBits(digits)))
        fits(exp) == Len(IntOfScaled(fbits, exp)) <= 10
        hits == {exp \in ExpRange : fits(exp)}
    IN  IF hits = {}
        THEN [called |-> TRUE, returned |-> "None"]
        ELSE LET exp == CHOOSE e \in hits : \A o \in hits : e <= o
             IN  [called |-> TRUE, returned |-> "dict",
                  s_int |-> BitsValue(IntOfScaled(fbits, exp)),
                  u |-> Unit(exp), b |-> digits]

\* The byte counts >= 0 with at most n base-1024 digits, no leading zero.
RECURSIVE ByteCounts(_)
ByteCounts(n) ==
    IF n = 0 THEN {}
    ELSE IF n = 1 THEN {<<0>>} \cup {<<d>> : d \in TopDigits}
    ELSE LET shorter == ByteCounts(n - 1)
         IN  shorter \cup
             {ds \o <<d>> : ds \in {x \in shorter : Len(x) = n - 1 /\ x # <<0>>},
                            d \in LowDigits}

(***************************************************************************)
(* Text.  A text is a sequence of fragments (strings); the text itself is  *)
(* their concatenation.  An f-string or a '+' of strings is the sequence   *)
(* of its pieces, a piece that is the empty string left out.               *)
(***************************************************************************)
Frag(s) == IF s = "" THEN <<>> ELSE <<s>>

RECURSIVE Text(_)
Text(frags) == IF frags = <<>> THEN "" ELSE Head(frags) \o Text(Tail(frags))

\* sep.join(parts), for parts a sequence of texts (fragment sequences).
RECURSIVE Join(_, _)
Join(sep, parts) ==
    IF parts = <<>> THEN <<>>
    ELSE IF Len(parts) = 1 THEN parts[1]
    ELSE parts[1] \o Frag(sep) \o Join(sep, Tail(parts))

\* The sequences over S of length at most n.
RECURSIVE SeqsUpTo(_, _)
SeqsUpTo(S, n) ==
    IF n = 0 THEN {<<>>}
    ELSE LET shorter == SeqsUpTo(S, n - 1)
         IN  shorter \cup {s \o <<x>> : s \in {t \in shorter : Len(t) = n - 1}, x \in S}

\* Python's truth value of an option's value: None, '' and False are false, any
\* other string (the string "false" too) is true.
Truthy(v) == v \notin {"", "None", "False"}

(***************************************************************************)
(* arguments(): the shell sub-parser (lines 379-506).  A command line is   *)
(* the record of what was given: the three positionals (the two paths as   *)
(* path.split('/')), the login pair or anon, the value of -p, the option   *)
(* flags given, the value of -P ("" not given, "bare" given without N) and *)
(* the --exclude-glob and --include-glob values in the order given.        *)
(***************************************************************************)
\* A store_const or store_true option: const when the flag is given, else default.
StoreConst(flags, flag, const, default) == IF flag \in flags THEN const ELSE default

parse_args(cmd) ==
    [site |-> cmd.site, remote |-> cmd.remote, local |-> cmd.local,
     login |-> cmd.login,
     anonymous |-> cmd.anon,
     port |-> cmd.port,
     secure |-> StoreConst(cmd.flags, "--secure", "s", "None"),
     ssl_verify |-> StoreConst(cmd.flags, "--ssl-verify", "yes", "no"),
     erase |-> StoreConst(cmd.flags, "--erase", "e", ""),
     newer |-> StoreConst(cmd.flags, "--newer", "n", ""),
     parallel |-> IF cmd.parallel = "bare" THEN "2" ELSE cmd.parallel,
     reverse |-> StoreConst(cmd.flags, "--reverse", "R", ""),
     del_first |-> StoreConst(cmd.flags, "--delete-first", " --delete-first", ""),
     depth_first |-> StoreConst(cmd.flags, "--depth-first", " --depth-first", ""),
     no_empty_dir |-> StoreConst(cmd.flags, "--no-empty-dirs", " --no-empty-dirs", ""),
     no_recursion |-> StoreConst(cmd.flags, "--no-recursion", " --no-recursion", ""),
     dry_run |-> StoreConst(cmd.flags, "--dry-run", " --dry-run", ""),
     use_cache |-> StoreConst(cmd.flags, "--use-cache", " --use-cache", ""),
     update_cloud |-> StoreConst(cmd.flags, "--update-cloud", "True", "false"),
     del_source |-> StoreConst(cmd.flags, "--del-source", " --Remove-source-files", ""),
     missing |-> StoreConst(cmd.flags, "--only-missing", " --only-missing", ""),
     existing |-> StoreConst(cmd.flags, "--only-existing", " --only-existing", ""),
     loop |-> StoreConst(cmd.flags, "--loop", " --loop", ""),
     size |-> StoreConst(cmd.flags, "--ignore-size", " --ignore-size", ""),
     time |-> StoreConst(cmd.flags, "--ignore-time", " --ignore-time", ""),
     no_perms |-> StoreConst(cmd.flags, "--no-perms", " --no-perms", ""),
     no_umask |-> StoreConst(cmd.flags, "--no-umask", " --no-umask", ""),
     no_symlinks |-> StoreConst(cmd.flags, "--no-symlinks", " --no-symlinks", ""),
     suid |-> StoreConst(cmd.flags, "--allow-suid", " --allow-suid", ""),
     chown |-> StoreConst(cmd.flags, "--allow-chown", " --allow-chown", ""),
     dereference |-> StoreConst(cmd.flags, "--dereference", " --dereference", ""),
     exc_glob |-> cmd.exclude_glob,
     inc_glob |-> cmd.include_glob,
     quiet |-> "--quiet" \in cmd.flags,
     compress |-> "--compress" \in cmd.flags,
     to_addrs |-> cmd.to_addrs,
     smtp_config |-> StoreConst(cmd.flags, "--smtp-config", "smtp.cfg", "None"),
     smtp_server |-> StoreConst(cmd.flags, "--smtp-server", "mail.example.com", "None"),
     smtp_user |-> StoreConst(cmd.flags, "--smtp-user", "joe", "None"),
     smtp_pass |-> StoreConst(cmd.flags, "--smtp-pass", "secret", "None"),
     from_addr |-> StoreConst(cmd.flags, "--smtp-from", "joe@example.com", "None")]

(***************************************************************************)
(* os.path.normpath, as mirror() calls it at line 664, on path.split('/'). *)
(***************************************************************************)
\* The loop over the components: '' and '.' are dropped, '..' pops the last
\* component kept unless there is none to pop or the last is '..' itself.
RECURSIVE NormComps(_, _, _)
NormComps(comps, new_comps, initial_slashes) ==
    IF comps = <<>> THEN new_comps
    ELSE LET comp == Head(comps)
             n == Len(new_comps)
             next ==
                 IF comp \in {"", "."} THEN new_comps
                 ELSE IF \/ comp # ".."
                         \/ (initial_slashes = 0 /\ n = 0)
                         \/ (n > 0 /\ new_comps[n] = "..")
                      THEN Append(new_comps, comp)
                 ELSE IF n > 0 THEN SubSeq(new_comps, 1, n - 1)
                 ELSE new_comps
         IN  NormComps(Tail(comps), next, initial_slashes)

\* A mutant of normpath: the path is written as given.
normpath_raw(comps) ==
    Text(Join("/", [i \in 1..Len(comps) |-> IF comps[i] = "" THEN <<>> ELSE <<comps[i]>>]))

\* The normalised path, as path.split('/').
NormSplit(comps) ==
    IF comps = <<"">> THEN <<".">>
    ELSE LET starts(k) == Len(comps) > k /\ \A i \in 1..k : comps[i] = ""
             initial_slashes == IF starts(2) /\ ~starts(3) THEN 2
                                ELSE IF starts(1) THEN 1 ELSE 0
             new_comps == NormComps(comps, <<>>, initial_slashes)
         IN  IF initial_slashes = 0
             THEN (IF new_comps = <<>> THEN <<".">> ELSE new_comps)
             ELSE [i \in 1..initial_slashes |-> ""]
                      \o (IF new_comps = <<>> THEN <<"">> ELSE new_comps)

\* '/'.join of the components: the path as text.
PathText(comps) == Text(Join("/", [i \in 1..Len(comps) |-> <<comps[i]>>]))

normpath(comps) == PathText(NormSplit(comps))

(***************************************************************************)
(* mirror(), lines 663-707: the values the script is made of, and its      *)
(* lines.                                                                  *)
(***************************************************************************)
\* line 663
user(a) == IF a.anonymous THEN <<>> ELSE Join(" ", <<Frag(a.login[1]), Frag(a.login[2])>>)

\* line 665
port(a) == IF a.port # "" THEN <<"-p ", a.port>> ELSE <<>>

\* line 667: one " --include-glob <pattern>" per pattern, joined by " "
include(a) ==
    Join(" ", [i \in 1..Len(a.inc_glob) |-> <<" --include-glob ", a.inc_glob[i]>>])

\* line 669: each excluded pattern is written after " --include-glob " as well
exclude(a) ==
    Join(" ", [i \in 1..Len(a.exc_glob) |-> <<" --include-glob ", a.exc_glob[i]>>])

\* line 670
parallel(a) == IF Truthy(a.parallel) THEN <<" --parallel=", a.parallel>> ELSE <<>>

\* A mutant of scp_args: the include patterns are put before the exclude patterns.
scp_args_include_first(a) ==
    <<"-vvv">> \o Frag(a.erase) \o Frag(a.newer) \o Frag(a.reverse)
        \o Frag(a.del_first) \o Frag(a.depth_first) \o Frag(a.no_empty_dir)
        \o Frag(a.no_recursion) \o Frag(a.dry_run) \o Frag(a.use_cache)
        \o Frag(a.del_source) \o Frag(a.missing) \o Frag(a.existing) \o Frag(a.loop)
        \o Frag(a.size) \o Frag(a.time) \o Frag(a.no_perms) \o Frag(a.no_umask)
        \o Frag(a.no_symlinks) \o Frag(a.suid) \o Frag(a.chown) \o Frag(a.dereference)
        \o include(a) \o exclude(a) \o parallel(a)

\* lines 686-692
scp_args(a) ==
    <<"-vvv">> \o Frag(a.erase) \o Frag(a.newer) \o Frag(a.reverse)
        \o Frag(a.del_first) \o Frag(a.depth_first) \o Frag(a.no_empty_dir)
        \o Frag(a.no_recursion) \o Frag(a.dry_run) \o Frag(a.use_cache)
        \o Frag(a.del_source) \o Frag(a.missing) \o Frag(a.existing) \o Frag(a.loop)
        \o Frag(a.size) \o Frag(a.time) \o Frag(a.no_perms) \o Frag(a.no_umask)
        \o Frag(a.no_symlinks) \o Frag(a.suid) \o Frag(a.chown) \o Frag(a.dereference)
        \o exclude(a) \o include(a) \o parallel(a)

\* line 695
secure_prefix(a) == IF Truthy(a.secure) THEN "s" ELSE ""

\* A mutant of mirror_source: the source is the remote path in both directions.
mirror_source_unswapped(a) == normpath(a.remote)

\* lines 701-702: the source and the destination of the mirror command
mirror_source(a) == IF Truthy(a.reverse) THEN normpath(a.local) ELSE normpath(a.remote)
mirror_target(a) == IF Truthy(a.reverse) THEN normpath(a.remote) ELSE normpath(a.local)

\* lines.insert(3, line): the line becomes the fourth
InsertAt3(lines, line) == SubSeq(lines, 1, 3) \o <<line>> \o SubSeq(lines, 4, Len(lines))

\* A mutant of auto_confirm: --ssl-verify is not looked at.
auto_confirm_secure_only(a) == Truthy(a.secure)

\* line 704
auto_confirm(a) == Truthy(a.secure) /\ ~(a.ssl_verify = "yes")

\* lines 698-705: the lines written to 'ftpscript', joined by os.linesep
script_lines(a) ==
    LET lines ==
            << <<"open ">> \o Frag(secure_prefix(a)) \o <<"ftp://", a.site, " ">> \o port(a),
               <<"user ">> \o user(a),
               <<"set ssl:verify-certificate ", a.ssl_verify>>,
               <<"mirror ">> \o scp_args(a)
                   \o <<" '", mirror_source(a), "' '", mirror_target(a), "'">>,
               <<"exit">> >>
    IN  IF auto_confirm(a) THEN InsertAt3(lines, <<"set sftp:auto-confirm yes">>)
        ELSE lines

NoFile == <<"no such file">>

(***************************************************************************)
(* The command lines drawn for the control-script builder.                 *)
(***************************************************************************)
\* The bound on the number of --include-glob and of --exclude-glob options.
MaxGlobs == 2

IncPatterns == {"*.zip", "*.iso"}
ExcPatterns == {"*.tmp", "*.bak"}
LocalPaths == {<<".", "mirror">>, <<"", "srv", "..", "files", "">>}
RemotePaths == {<<"", "pub">>}
ScriptFlags == {"--secure", "--ssl-verify", "--reverse", "--erase", "--dereference"}

ShellCommands ==
    [site : {"ftp.example.com"},
     remote : RemotePaths,
     local : LocalPaths,
     login : {<<>>},
     anon : {TRUE},
     port : {"", "2121"},
     flags : SUBSET ScriptFlags,
     parallel : {"", "bare", "4"},
     exclude_glob : SeqsUpTo(ExcPatterns, MaxGlobs),
     include_glob : SeqsUpTo(IncPatterns, MaxGlobs),
     to_addrs : {<<>>}]
    \cup
    [site : {"ftp.example.com"},
     remote : RemotePaths,
     local : LocalPaths,
     login : {<<"joe", "secret">>},
     anon : {FALSE},
     port : {"", "2121"},
     flags : SUBSET ScriptFlags,
     parallel : {""},
     exclude_glob : {<<>>},
     include_glob : {<<>>},
     to_addrs : {<<>>}]

\* shell ftp.example.com /pub ./mirror --anon
ExampleCommand ==
    [site |-> "ftp.example.com", remote |-> <<"", "pub">>, local |-> <<".", "mirror">>,
     login |-> <<>>, anon |-> TRUE, port |-> "", flags |-> {}, parallel |-> "",
     exclude_glob |-> <<>>, include_glob |-> <<>>, to_addrs |-> <<>>]

(***************************************************************************)
(* The clock and the archive files.  A time is a day number and a minute   *)
(* of that day; time.strftime('%a') is the weekday of the day and          *)
(* '%d%b%Y_%H:%M' is the day and the minute.                               *)
(***************************************************************************)
\* The bounds of the clock: days 0..MaxDay, minutes 0..MaxMinute of each day.
MaxDay == 7
MaxMinute == 1
\* The bound on the number of compress() calls of one behaviour.
MaxCalls == 3

Times == [day : 0..MaxDay, minute : 0..MaxMinute]

Weekdays == <<"Mon", "Tue", "Wed", "Thu", "Fri", "Sat", "Sun">>

\* time.strftime('%a')
Weekday(t) == Weekdays[(t.day % 7) + 1]

NotBefore(t, u) == u.day > t.day \/ (u.day = t.day /\ u.minute >= t.minute)

\* The characters of a directory name, for the names drawn.
Chars(name) ==
    CASE name = "m" -> <<"m">>
      [] name = "m2" -> <<"m", "2">>
      [] OTHER -> <<name>>

IsPrefix(p, q) == Len(p) <= Len(q) /\ SubSeq(q, 1, Len(p)) = p

\* os.path.basename of a path given as path.split('/')
basename(path) == path[Len(path)]

\* line 645: f"{dir2gz}_{time.strftime('%d%b%Y_%H:%M_%a')}.tar.gz"
gz_name(dir2gz, t) ==
    [base |-> dir2gz, day |-> t.day, minute |-> t.minute, wd |-> Weekday(t)]

\* line 644: glob.glob(f"{dir2gz}*{time.strftime('%a')}.tar.gz"): the names of
\* the working directory that begin with dir2gz and end with the weekday and
\* '.tar.gz'.  A file name is its base, '_', the stamp, '_', the weekday.
Matches(dir2gz, wd, name) ==
    /\ IsPrefix(Chars(dir2gz), Chars(name.base) \o <<"_">>)
    /\ name.wd = wd

old_gzs(files, dir2gz, t) == {f.name : f \in {g \in files : Matches(dir2gz, Weekday(t), g.name)}}

\* open(name, 'w'): the file is created, or truncated when it exists.
Created(files, name, intact, id) ==
    {f \in files : f.name # name} \cup {[name |-> name, intact |-> intact, made |-> id]}

\* compress(path), lines 639-655, called at clock t1 (line 644), with the clock
\* at t2 when the name is made (line 645).  outcome: "ok"; "open_fails" when
\* tarfile.open raises; "add_fails" when adding the tree raises after the file
\* was opened for writing.  An exception is caught by @logger.catch(), and the
\* call returns None.
compress(files, path, t1, t2, outcome, id) ==
    LET dir2gz == basename(path)
        old == old_gzs(files, dir2gz, t1)
        name == gz_name(dir2gz, t2)
    IN  CASE outcome = "open_fails" -> [files |-> files, output |-> "None"]
          [] outcome = "add_fails" ->
                 [files |-> Created(files, name, FALSE, id), output |-> "None"]
          [] OTHER ->
                 [files |-> {f \in Created(files, name, TRUE, id) : f.name \notin old},
                  output |-> [created |-> name, deleted |-> old]]

CompressOutcomes == {"ok", "open_fails", "add_fails"}

\* The local directories compress() is called with (normalised paths).
RotatePaths == {<<"m">>, <<"", "srv", "m2">>}

NoCall == [called |-> FALSE]

\* One call of compress(path).  The clock may have advanced between lines 644
\* and 645.
Compress(path, t2, outcome) ==
    /\ calls < MaxCalls
    /\ NotBefore(now, t2)
    /\ LET r == compress(gzs, path, now, t2, outcome, calls + 1)
       IN  /\ gzs' = r.files
           /\ last' = [called |-> TRUE, dir2gz |-> basename(path), wd |-> Weekday(t2),
                       name |-> gz_name(basename(path), t2), outcome |-> outcome,
                       output |-> r.output, before |-> gzs]
    /\ now' = t2
    /\ calls' = calls + 1
    /\ UNCHANGED <<unitVars, scriptVars, mainVars>>

\* Time passes between two calls.
Tick(t) ==
    /\ t # now /\ NotBefore(now, t)
    /\ calls < MaxCalls
    /\ now' = t
    /\ UNCHANGED <<gzs, calls, last, unitVars, scriptVars, mainVars>>

(***************************************************************************)
(* The disk usage summary of mirror(), lines 724-729, after compress() has *)
(* made its archive in the working directory.  A directory is the list of  *)
(* its path's components.                                                  *)
(***************************************************************************)
\* get_path_info(gz)[0] of an archive: os.path.getsize; the files drawn
\* differ in size by the call that made them.
FileSize(f) == 64 * (f.made + 1)

RECURSIVE SumSizes(_)
SumSizes(files) ==
    IF files = {} THEN 0
    ELSE LET f == CHOOSE x \in files : TRUE
         IN  FileSize(f) + SumSizes(files \ {f})

\* line 724: glob.glob(f"{local}*.gz"), among the archives of the working
\* directory cwd: the pattern names the directory local lies in (resolved
\* against cwd when local is relative) and the files there whose names begin
\* with local's last component.
glob_gz(files, cwd, local) ==
    LET dir == SubSeq(local, 1, Len(local) - 1)
        pattern_dir == IF Len(local) > 1 /\ local[1] = "" THEN dir ELSE cwd \o dir
    IN  {f \in files :
            /\ pattern_dir = cwd
            /\ IsPrefix(Chars(basename(local)), Chars(f.name.base) \o <<"_">>)}

\* lines 724-727: the total handed to best_unit_size.
disk_usage(files, cwd, local, local_size, log_size) ==
    local_size + SumSizes(glob_gz(files, cwd, local)) + log_size

\* The archives found in the working directory at the start, the local
\* directories and working directories drawn, and the sizes of the local tree
\* and of the log file.
OldArchives ==
    {[name |-> gz_name("m", [day |-> 0, minute |-> 0]), intact |-> TRUE, made |-> 0],
     [name |-> gz_name("m", [day |-> 2, minute |-> 0]), intact |-> TRUE, made |-> 0],
     [name |-> gz_name("m2", [day |-> 1, minute |-> 0]), intact |-> TRUE, made |-> 0]}
UsageLocals == {<<"m">>, <<".", "m">>, <<"", "srv", "m">>, <<"sub", "m">>}
WorkingDirs == {<<"", "srv">>, <<"", "home", "joe">>}
TreeSizes == {0, 5}
LogSizes == {0, 7}

\* mirror(), lines 719-729, with --compress: the archive is made, then the
\* sizes are added up and converted.
Summarize(local, cwd, local_size, local_fcount, log_size) ==
    /\ ~last.called
    /\ LET path == NormSplit(local)
           r == compress(gzs, path, now, now, "ok", calls + 1)
           total == disk_usage(r.files, cwd, path, local_size, log_size)
       IN  /\ gzs' = r.files
           /\ last' = [called |-> TRUE, dir2gz |-> basename(path), wd |-> Weekday(now),
                       name |-> gz_name(basename(path), now), outcome |-> "ok",
                       output |-> r.output, before |-> gzs, cwd |-> cwd,
                       local_size |-> local_size, local_fcount |-> local_fcount,
                       log_size |-> log_size]
           /\ bytes_size' = <<total>>
           /\ size' = best_unit_size(<<total>>)
    /\ calls' = calls + 1
    /\ UNCHANGED <<now, scriptVars, mainVars>>

(***************************************************************************)
(* parse_parms (lines 776-781) and the shell sub-parser on the words it    *)
(* returns.  A word is a string; the words of an f-string are cut at its   *)
(* blanks, so two values written without a blank between them are one      *)
(* word.                                                                   *)
(***************************************************************************)
\* base64.b64decode, on the passwords drawn: the decoded text, or an error
\* (binascii.Error) for a text that is no base64.
b64decode(p) ==
    CASE p = "" -> [ok |-> TRUE, text |-> ""]
      [] p = "c2VjcmV0" -> [ok |-> TRUE, text |-> "secret"]
      [] p = "cGFzc3dvcmQ=" -> [ok |-> TRUE, text |-> "password"]
      [] OTHER -> [ok |-> FALSE, text |-> ""]

\* An f-string renders the bytes b64decode returns by their repr().
BytesRepr(text) == "b'" \o text \o "'"

\* str.split(): the words between blanks; no word is empty.
split(words) == SelectSeq(words, LAMBDA w : w # "")

\* parse_parms(site, port, remote, local, user, password, options), for a
\* password that decodes.  The f-string has no blank between the port and
\* the remote directory, nor between the user and the password.
parse_parms(parms) ==
    split(<<"shell", parms.site, "-p", parms.port \o PathText(parms.remote),
            PathText(parms.local), "-l",
            parms.user \o BytesRepr(b64decode(parms.password).text)>>
          \o parms.options)

\* The words of the same mirror given on the command line of the shell mode.
Interactive(parms) ==
    <<"shell", parms.site, PathText(parms.remote), PathText(parms.local)>>
    \o (IF parms.port = "" THEN <<>> ELSE <<"-p", parms.port>>)
    \o (IF parms.user = "" /\ parms.password = "" THEN <<>>
        ELSE <<"-l", parms.user, b64decode(parms.password).text>>)
    \o parms.options

\* The option strings of the shell sub-parser that take no value, by the flag
\* they set, and all its option strings drawn.
FlagOf(word) ==
    CASE word = "-e" -> "--erase"
      [] word = "-r" -> "--reverse"
      [] word = "-s" -> "--secure"
      [] OTHER -> word

FlagWords == {"-e", "--erase", "-r", "--reverse", "-s", "--secure", "--compress",
              "--update-cloud", "--dereference", "--ssl-verify"}
OptionWords == FlagWords \cup {"-p", "--port", "-l", "--login", "-a", "--anon"}

\* The paths drawn for a config file, to read a word back as path.split('/').
CfgPaths == {<<"", "pub">>, <<"", "srv", "m">>, <<"", "srv", "m2">>, <<"m">>}

SplitPath(word) ==
    IF \E c \in CfgPaths : PathText(c) = word
    THEN CHOOSE c \in CfgPaths : PathText(c) = word
    ELSE <<word>>

\* argparse on the words after 'shell': an option takes the words that
\* follow it as its values (one for -p, two for -l) when they are no option
\* strings, any other word is a positional.  st is what was seen so far.
RECURSIVE ScanWords(_, _)
ScanWords(words, st) ==
    IF words = <<>> \/ ~st.ok THEN st
    ELSE LET w == Head(words)
             rest == Tail(words)
             values(k) == Len(rest) >= k /\ \A i \in 1..k : rest[i] \notin OptionWords
         IN  CASE w \in {"-p", "--port"} ->
                      IF values(1)
                      THEN ScanWords(Tail(rest), [st EXCEPT !.port = rest[1]])
                      ELSE [st EXCEPT !.ok = FALSE]
               [] w \in {"-l", "--login"} ->
                      IF values(2) /\ ~st.anon
                      THEN ScanWords(Tail(Tail(rest)),
                                     [st EXCEPT !.login = <<rest[1], rest[2]>>])
                      ELSE [st EXCEPT !.ok = FALSE]
               [] w \in {"-a", "--anon"} ->
                      IF st.login = <<>>
                      THEN ScanWords(rest, [st EXCEPT !.anon = TRUE])
                      ELSE [st EXCEPT !.ok = FALSE]
               [] w \in FlagWords ->
                      ScanWords(rest, [st EXCEPT !.flags = @ \cup {FlagOf(w)}])
               [] OTHER ->
                      ScanWords(rest, [st EXCEPT !.positionals = Append(@, w)])

\* parser.parse_args(words): the command line read, or an error (the parser
\* prints it and raises SystemExit(2)): no 'shell', not three positionals,
\* neither or both of -l and -a, or an option short of values.
shell_parse(words) ==
    IF words = <<>> \/ Head(words) # "shell" THEN [ok |-> FALSE]
    ELSE LET st == ScanWords(Tail(words),
                             [ok |-> TRUE, positionals |-> <<>>, port |-> "",
                              login |-> <<>>, anon |-> FALSE, flags |-> {}])
         IN  IF ~st.ok \/ Len(st.positionals) # 3 \/ (st.login = <<>> /\ ~st.anon)
             THEN [ok |-> FALSE]
             ELSE [ok |-> TRUE,
                   cmd |-> [site |-> st.positionals[1],
                            remote |-> SplitPath(st.positionals[2]),
                            local |-> SplitPath(st.positionals[3]),
                            login |-> st.login, anon |-> st.anon, port |-> st.port,
                            flags |-> st.flags, parallel |-> "",
                            exclude_glob |-> <<>>, include_glob |-> <<>>,
                            to_addrs |-> <<>>]]

(***************************************************************************)
(* Logger (lines 126-323).  The log is the sequence of the sections        *)
(* appended; a content is a sequence of lines, <<>> for '', [] and None.   *)
(***************************************************************************)
\* block() without the test of line 177
block_unguarded(l, title, content) ==
    Append(l, [op |-> "block", title |-> title, content |-> content])

\* Logger.block, lines 170-183
block(l, title, content) ==
    IF content = <<>> THEN l
    ELSE Append(l, [op |-> "block", title |-> title, content |-> content])

\* Logger.list, lines 185-200
list(l, title, content) ==
    IF content = <<>> THEN l
    ELSE Append(l, [op |-> "list", title |-> title, content |-> content])

\* Logger.free, lines 202-209
free(l, content) == Append(l, [op |-> "free", title |-> "", content |-> content])

\* Logger.time, lines 211-223: a block with the clock's reading
time(l, title, t) == block(l, title, <<t>>)

\* Logger.header, lines 225-242
header(l, url, msg) == block(l, "Script", <<"lftp_mirror", url, "", msg>>)

\* Logger.write(True), lines 309-323: the whole log is appended to the file
write(file, l) == file \o l

(***************************************************************************)
(* main() in shell mode (lines 785-896) and mirror() (lines 660-736).      *)
(***************************************************************************)
\* The exit codes lftp is drawn to end with: 0 .. MaxExitCode.
MaxExitCode == 2

\* What lftp printed: sync.stdout.readlines()
Outputs == {<<>>, <<"Transferring file `a.txt'">>}

\* lines 847-859: the SMTP options given must fit --to-addrs, else parser.error
SmtpOptionsFit(a) ==
    LET given(v) == v # "None"
        each == {a.smtp_server, a.smtp_user, a.smtp_pass, a.from_addr}
    IN  IF a.to_addrs # <<>>
        THEN given(a.smtp_config) \/ \A v \in each : given(v)
        ELSE ~(given(a.smtp_config) \/ \E v \in each : given(v))

\* main(), lines 814-860, shell mode: the arguments are parsed and checked;
\* parser.error ends the process with status 2.
ParseShell ==
    /\ pc = "start"
    /\ IF SmtpOptionsFit(args)
       THEN pc' = "mirror" /\ UNCHANGED exit_status
       ELSE pc' = "exited" /\ exit_status' = PyInt(2)
    /\ UNCHANGED <<local_exists, log, logfile, returncode, mir_res>>
    /\ UNCHANGED <<launches, reindex_res, send_res, sections, done>>
    /\ UNCHANGED <<unitVars, scriptVars, rotateVars>>

\* An exception leaves mirror(): @logger.catch() logs it and mirror() returns
\* None to main(), which goes on.
Raised ==
    /\ mir_res' = PyNone
    /\ pc' = "after_mirror"

\* mirror(), lines 663-707: the header, the local directory, the script file.
\* mkdir_ok: whether os.mkdir succeeds when the directory is missing.
MirrorBegin(mkdir_ok) ==
    /\ pc = "mirror"
    /\ LET msg == IF Truthy(args.reverse) THEN "upload" ELSE "download"
           l1 == time(header(log, "https://joedicastro.com", msg), "Start time", now)
       IN  IF ~local_exists /\ ~mkdir_ok
           THEN /\ log' = l1
                /\ Raised
                /\ UNCHANGED <<local_exists, ftpscript>>
           ELSE /\ local_exists' = TRUE
                /\ log' = list(IF local_exists THEN l1
                               ELSE list(l1, "Created new directory",
                                         <<normpath(args.local)>>),
                               "lftp mirror arguments", <<Text(scp_args(args))>>)
                /\ ftpscript' = script_lines(args)
                /\ pc' = "transfer"
                /\ UNCHANGED mir_res
    /\ done' = Append(done, args.site)
    /\ UNCHANGED <<logfile, returncode, exit_status, argv, args>>
    /\ UNCHANGED <<launches, reindex_res, send_res, sections>>
    /\ UNCHANGED <<unitVars, rotateVars>>

\* mirror(), lines 710-712: lftp runs on the script.  launched: whether Popen
\* could start it (else an OSError leaves mirror()); rc: its exit code; out:
\* the lines it printed.
Transfer(launched, rc, out) ==
    /\ pc = "transfer"
    /\ IF launched
       THEN /\ returncode' = PyInt(rc)
            /\ log' = list(log, "lftp output", out)
            /\ pc' = "rotate"
            /\ launches' = launches + 1
            /\ UNCHANGED mir_res
       ELSE /\ Raised
            /\ UNCHANGED <<returncode, log, launches>>
    /\ UNCHANGED <<local_exists, logfile, exit_status>>
    /\ UNCHANGED <<reindex_res, send_res, sections, done>>
    /\ UNCHANGED <<unitVars, scriptVars, rotateVars>>

\* The clock readings of the day of t: within a run the clock is drawn to
\* stay in the day.
SameDay(t) == {u \in Times : u.day = t.day}

\* mirror(), lines 719-721: the archive rotation, when asked for and the
\* direction is download.  A failure inside compress() is caught there;
\* compress() returns None and the list section is skipped.
Rotate(t2, outcome) ==
    /\ pc = "rotate"
    /\ IF ~Truthy(args.reverse) /\ args.compress
       THEN /\ NotBefore(now, t2)
            /\ t2 \in SameDay(now)
            /\ LET path == NormSplit(args.local)
                   r == compress(gzs, path, now, t2, outcome, calls + 1)
               IN  /\ gzs' = r.files
                   /\ last' = [called |-> TRUE, dir2gz |-> basename(path),
                               wd |-> Weekday(t2), name |-> gz_name(basename(path), t2),
                               outcome |-> outcome, output |-> r.output, before |-> gzs]
                   /\ log' = list(log, "Rotate compressed copies",
                                  IF outcome = "ok" THEN <<r.output>> ELSE <<>>)
            /\ now' = t2
            /\ calls' = calls + 1
       ELSE /\ t2 = now /\ outcome = "ok"
            /\ UNCHANGED <<rotateVars, log>>
    /\ pc' = "account"
    /\ UNCHANGED <<local_exists, logfile, returncode, mir_res, exit_status>>
    /\ UNCHANGED <<launches, reindex_res, send_res, sections, done>>
    /\ UNCHANGED <<unitVars, scriptVars>>

\* Account() taking a non-zero exit code of lftp as fatal: mirror() raises
\* instead of finishing the log.
Account_nonzero_fatal(outcome) ==
    /\ pc = "account"
    /\ IF returncode = PyInt(0) /\ outcome = "ok"
       THEN /\ log' = free(time(block(log, "Disk space used", <<"files and size">>),
                                "End Time", now), <<"", "">>)
            /\ logfile' = write(logfile, log')
            /\ ftpscript' = NoFile
            /\ mir_res' = returncode
            /\ pc' = "after_mirror"
       ELSE /\ Raised
            /\ UNCHANGED <<log, logfile, ftpscript>>
    /\ UNCHANGED <<local_exists, returncode, exit_status, argv, args>>
    /\ UNCHANGED <<launches, reindex_res, send_res, sections, done>>
    /\ UNCHANGED <<unitVars, rotateVars>>

\* mirror(), lines 724-736: disk accounting, the end of the log, the log file,
\* and only then the removal of the script.  outcome: "ok"; "stat_fails" when
\* get_path_info fails (it returns None and mirror() raises on using it);
\* "write_fails" when the log file cannot be written.
Account(outcome) ==
    /\ pc = "account"
    /\ LET l1 == block(log, "Disk space used", <<"files and size">>)
           l2 == free(time(l1, "End Time", now), <<"", "">>)
       IN  CASE outcome = "stat_fails" ->
                    /\ Raised
                    /\ UNCHANGED <<log, logfile, ftpscript>>
             [] outcome = "write_fails" ->
                    /\ Raised
                    /\ log' = l2
                    /\ UNCHANGED <<logfile, ftpscript>>
             [] OTHER ->
                    /\ log' = l2
                    /\ logfile' = write(logfile, l2)
                    /\ ftpscript' = NoFile
                    /\ mir_res' = returncode
                    /\ pc' = "after_mirror"
    /\ UNCHANGED <<local_exists, returncode, exit_status, argv, args>>
    /\ UNCHANGED <<launches, reindex_res, send_res, sections, done>>
    /\ UNCHANGED <<unitVars, rotateVars>>

\* Reindex() with a failure of reindex_cloud leaving main(), the mail step
\* skipped.
Reindex_failure_aborts(reindexed) ==
    /\ pc = "after_mirror"
    /\ sections = <<>>
    /\ IF reindexed
       THEN /\ log' = block(log, "Reindexing cloud", <<"fully indexed">>)
            /\ reindex_res' = "done"
            /\ pc' = "send"
       ELSE /\ reindex_res' = "failed"
            /\ pc' = "exit"
            /\ UNCHANGED log
    /\ UNCHANGED <<local_exists, logfile, returncode, mir_res, exit_status>>
    /\ UNCHANGED <<launches, send_res, sections, done>>
    /\ UNCHANGED <<unitVars, scriptVars, rotateVars>>

\* main(), lines 862-863, and reindex_cloud(), lines 756-773:
\* args.update_cloud is True when --update-cloud is given and the string
\* "false" otherwise.  reindexed: whether reindex_cloud ran through (its
\* exceptions are caught by @logger.catch()).
Reindex(reindexed) ==
    /\ pc = "after_mirror"
    /\ sections = <<>>
    /\ IF Truthy(args.update_cloud)
       THEN IF reindexed
            THEN /\ log' = block(log, "Reindexing cloud", <<"fully indexed">>)
                 /\ reindex_res' = "done"
            ELSE /\ reindex_res' = "failed"
                 /\ UNCHANGED log
       ELSE /\ reindexed
            /\ reindex_res' = "skipped"
            /\ UNCHANGED log
    /\ pc' = "send"
    /\ UNCHANGED <<local_exists, logfile, returncode, mir_res, exit_status>>
    /\ UNCHANGED <<launches, send_res, sections, done>>
    /\ UNCHANGED <<unitVars, scriptVars, rotateVars>>

\* Logger.send, lines 248-307.  connect: "ok", "gaierror" or "error" (lines
\* 280-285); login: "ok", "auth" or "no_method" (lines 288-293), asked of a
\* connected server other than localhost; sendmail: "ok", "recipients",
\* "sender" or "data" (lines 295-303).  On a server that was never connected
\* login, sendmail and quit raise smtplib.SMTPServerDisconnected: an
\* SMTPException, caught at line 292, but none of the three caught at lines
\* 297-302, so it leaves send().
send(l, mail_server, connect, login, sendmail) ==
    LET connected == connect = "ok"
        l1 == CASE connect = "gaierror" ->
                       list(l, "mail error", <<"Wrong server, are you sure is correct?">>)
                [] connect = "error" ->
                       list(l, "mail error", <<"Server unavailable or connection refused">>)
                [] OTHER -> l
        l2 == IF mail_server = "localhost" THEN l1
              ELSE IF ~connected \/ login = "no_method"
                   THEN list(l1, "mail error", <<"No suitable authentication method">>)
              ELSE IF login = "auth"
                   THEN list(l1, "mail error", <<"Authentication error">>)
              ELSE l1
        l3 == CASE sendmail = "recipients" ->
                       list(l2, "mail error",
                            <<"All recipients were refused.Nobody got the mail.">>)
                [] sendmail = "sender" ->
                       list(l2, "mail error", <<"The server didn't accept the from_addr">>)
                [] sendmail = "data" ->
                       list(l2, "mail error", <<"An unexpected error code, Data refused">>)
                [] OTHER -> l2
    IN  IF connected THEN [log |-> l3, raised |-> FALSE]
        ELSE [log |-> l2, raised |-> TRUE]

MailServers == {"localhost", "mail.example.com"}
ConnectOutcomes == {"ok", "gaierror", "error"}
LoginOutcomes == {"ok", "auth", "no_method"}
SendmailOutcomes == {"ok", "recipients", "sender", "data"}

\* main(), lines 866-894: the log is mailed when --to-addrs was given.
\* config_ok: whether the file of --smtp-config could be read (else open()
\* raises out of main()); mail_server: the server named in that file.  An
\* exception leaving send() leaves main() as well, through @logger.catch().
\* The outcomes of steps that are not reached are drawn as "ok".
Send(config_ok, mail_server, connect, login, sendmail) ==
    /\ pc = "send"
    /\ (args.to_addrs = <<>> \/ (args.smtp_config # "None" /\ ~config_ok) \/ connect # "ok")
           => (login = "ok" /\ sendmail = "ok")
    /\ (args.to_addrs = <<>>)
           => (config_ok /\ mail_server = "localhost" /\ connect = "ok")
    /\ IF args.to_addrs = <<>>
       THEN /\ send_res' = "skipped"
            /\ UNCHANGED log
       ELSE IF args.smtp_config # "None" /\ ~config_ok
            THEN /\ send_res' = "not called"
                 /\ UNCHANGED log
       ELSE LET server == IF args.smtp_config # "None" THEN mail_server
                          ELSE args.smtp_server
                r == send(log, server, connect, login, sendmail)
            IN  /\ log' = r.log
                /\ send_res' = IF r.raised THEN "raised" ELSE "returned"
    /\ pc' = "exit"
    /\ UNCHANGED <<local_exists, logfile, returncode, mir_res, exit_status>>
    /\ UNCHANGED <<launches, reindex_res, sections, done>>
    /\ UNCHANGED <<unitVars, scriptVars, rotateVars>>

\* main() returns (line 896) and the interpreter ends: nothing passes mir_res
\* to sys.exit, the exit status is 0.
Exit ==
    /\ pc = "exit"
    /\ exit_status' = PyInt(0)
    /\ pc' = "exited"
    /\ UNCHANGED <<local_exists, log, logfile, returncode, mir_res>>
    /\ UNCHANGED <<launches, reindex_res, send_res, sections, done>>
    /\ UNCHANGED <<unitVars, scriptVars, rotateVars>>

\* main(), lines 834-845, cfg mode: the loop takes the next section of the
\* config file, turns it into the words of a shell command line and parses
\* them; mirror() is then called.  cfg.get raises NoOptionError for a key the
\* section lacks and b64decode raises binascii.Error: either leaves main()
\* through @logger.catch() (line 784).  A command line the parser rejects
\* makes it raise SystemExit(2), which @logger.catch() does not catch.
NextSection ==
    /\ pc \in {"cfg", "after_mirror"}
    /\ sections # <<>>
    /\ LET sect == Head(sections)
           parsed == shell_parse(parse_parms(sect))
       IN  /\ sections' = Tail(sections)
           /\ argv' = sect
           /\ IF ~sect.complete \/ ~b64decode(sect.password).ok
              THEN pc' = "exit" /\ UNCHANGED <<args, exit_status>>
              ELSE IF ~parsed.ok
              THEN pc' = "exited" /\ exit_status' = PyInt(2) /\ UNCHANGED args
              ELSE pc' = "mirror" /\ args' = parse_args(parsed.cmd)
                       /\ UNCHANGED exit_status
    /\ UNCHANGED <<ftpscript, local_exists, log, logfile, returncode, mir_res>>
    /\ UNCHANGED <<launches, reindex_res, send_res, done>>
    /\ UNCHANGED <<unitVars, rotateVars>>

\* The sections drawn for a config file: well-formed ones as the usage text
\* of lines 339-356 describes them (a login, or blank user and password with
\* '-a'), one whose options hold two further words, one lacking a key and
\* one whose password is no base64.
MaxSections == 2

CfgSections ==
    LET sect(site, prt, usr, password, options, complete) ==
            [kind |-> "section", site |-> site, port |-> prt,
             remote |-> <<"", "pub">>, local |-> <<"", "srv", "m">>,
             user |-> usr, password |-> password, options |-> options,
             complete |-> complete]
    IN  {sect("a.example.com", "", "joe", "c2VjcmV0", <<>>, TRUE),
         sect("b.example.com", "2121", "joe", "c2VjcmV0", <<"-e">>, TRUE),
         sect("c.example.com", "", "", "", <<"-a">>, TRUE),
         sect("d.example.com", "", "", "", <<"pw", "m">>, TRUE),
         sect("e.example.com", "", "", "", <<"pw", "m2">>, TRUE),
         sect("f.example.com", "", "joe", "c2VjcmV0", <<>>, FALSE),
         sect("g.example.com", "", "joe", "!!!x", <<>>, TRUE)}

\* A section written as the usage text asks.
WellFormed(sect) ==
    /\ sect.complete
    /\ b64decode(sect.password).ok
    /\ shell_parse(Interactive(sect)).ok

\* The config files drawn: one to MaxSections sections with different names.
ConfigFiles ==
    {f \in SeqsUpTo(CfgSections, MaxSections) :
        /\ f # <<>>
        /\ \A i, j \in 1..Len(f) : i # j => f[i].site # f[j].site}

\* The command lines drawn for main().
MainFlags == {"--reverse", "--compress", "--update-cloud"}

MainCommands ==
    [site : {"ftp.example.com"},
     remote : {<<"", "pub">>},
     local : {<<".", "m">>},
     login : {<<>>},
     anon : {TRUE},
     port : {""},
     flags : SUBSET MainFlags \cup {f \cup {"--smtp-config"} : f \in SUBSET MainFlags},
     parallel : {""},
     exclude_glob : {<<>>},
     include_glob : {<<>>},
     to_addrs : {<<>>, <<"joe@example.com">>}]

(***************************************************************************)
(* The specifications.  Each one draws the inputs of one part of the       *)
(* program and holds the variables of the other parts still.               *)
(***************************************************************************)
UnitIdle == bytes_size = <<0>> /\ size = NotCalled

ScriptIdle ==
    /\ argv = ExampleCommand
    /\ args = parse_args(argv)
    /\ ftpscript = NoFile

RotateIdle ==
    /\ now = [day |-> 0, minute |-> 0]
    /\ gzs = {}
    /\ calls = 0
    /\ last = NoCall

MainIdle ==
    /\ pc = "idle"
    /\ local_exists = TRUE
    /\ log = <<>>
    /\ logfile = <<>>
    /\ returncode = Unset
    /\ mir_res = Unset
    /\ exit_status = Unset
    /\ launches = 0
    /\ reindex_res = "unset"
    /\ send_res = "unset"
    /\ sections = <<>>
    /\ done = <<>>

UnitInit ==
    /\ bytes_size \in ByteCounts(MaxDigits)
    /\ size = NotCalled
    /\ ScriptIdle /\ RotateIdle /\ MainIdle

CallBestUnitSize ==
    /\ size = NotCalled
    /\ size' = best_unit_size(bytes_size)
    /\ UNCHANGED <<bytes_size, scriptVars, rotateVars, mainVars>>

UnitNext == CallBestUnitSize

SpecUnit == UnitInit /\ [][UnitNext]_vars

ScriptInit ==
    /\ argv \in ShellCommands
    /\ args = parse_args(argv)
    /\ ftpscript = NoFile
    /\ UnitIdle /\ RotateIdle /\ MainIdle

\* mirror() up to line 707: the script file is written.
WriteScript ==
    /\ ftpscript = NoFile
    /\ ftpscript' = script_lines(args)
    /\ UNCHANGED <<argv, args, unitVars, rotateVars, mainVars>>

ScriptNext == WriteScript

SpecScript == ScriptInit /\ [][ScriptNext]_vars

RotateInit ==
    /\ now \in Times
    /\ gzs = {}
    /\ calls = 0
    /\ last = NoCall
    /\ UnitIdle /\ ScriptIdle /\ MainIdle

RotateNext ==
    \/ \E path \in RotatePaths, t2 \in Times, outcome \in CompressOutcomes :
           Compress(path, t2, outcome)
    \/ \E t \in Times : Tick(t)

SpecRotate == RotateInit /\ [][RotateNext]_vars

UsageInit ==
    /\ now \in {t \in Times : t.day >= 3}
    /\ gzs \in SUBSET OldArchives
    /\ calls = 0
    /\ last = NoCall
    /\ UnitIdle /\ ScriptIdle /\ MainIdle

UsageNext ==
    \E local \in UsageLocals, cwd \in WorkingDirs, local_size \in TreeSizes,
       local_fcount \in {0, 3}, log_size \in LogSizes :
        Summarize(local, cwd, local_size, local_fcount, log_size)

SpecUsage == UsageInit /\ [][UsageNext]_vars

MainInit ==
    /\ argv \in MainCommands
    /\ args = parse_args(argv)
    /\ ftpscript = NoFile
    /\ pc = "start"
    /\ local_exists \in BOOLEAN
    /\ log = <<>>
    /\ logfile = <<>>
    /\ returncode = Unset
    /\ mir_res = Unset
    /\ exit_status = Unset
    /\ launches = 0
    /\ reindex_res = "unset"
    /\ send_res = "unset"
    /\ sections = <<>>
    /\ done = <<>>
    /\ UnitIdle /\ RotateIdle

\* 'lftp_mirror cfg sites.cfg': args is the namespace of the cfg sub-parser
\* until the first section is parsed.
CfgInit ==
    /\ sections \in ConfigFiles
    /\ argv = [kind |-> "cfg", config_file |-> "sites.cfg"]
    /\ args = [cfg |-> TRUE, cron |-> FALSE, config_file |-> "sites.cfg"]
    /\ ftpscript = NoFile
    /\ pc = "cfg"
    /\ local_exists = TRUE
    /\ log = <<>>
    /\ logfile = <<>>
    /\ returncode = Unset
    /\ mir_res = Unset
    /\ exit_status = Unset
    /\ launches = 0
    /\ reindex_res = "unset"
    /\ send_res = "unset"
    /\ done = <<>>
    /\ UnitIdle /\ RotateIdle

CfgNext ==
    \/ NextSection
    \/ \E mkdir_ok \in BOOLEAN : MirrorBegin(mkdir_ok)
    \/ \E launched \in BOOLEAN, rc \in 0..MaxExitCode, out \in Outputs :
           Transfer(launched, rc, out)
    \/ \E t2 \in Times, outcome \in CompressOutcomes : Rotate(t2, outcome)
    \/ \E outcome \in {"ok", "stat_fails", "write_fails"} : Account(outcome)
    \/ \E reindexed \in BOOLEAN : Reindex(reindexed)
    \/ \E config_ok \in BOOLEAN, mail_server \in MailServers,
          connect \in ConnectOutcomes, login \in LoginOutcomes,
          sendmail \in SendmailOutcomes :
           Send(config_ok, mail_server, connect, login, sendmail)
    \/ Exit

SpecCfg == CfgInit /\ [][CfgNext]_vars

MainNext ==
    \/ ParseShell
    \/ \E mkdir_ok \in BOOLEAN : MirrorBegin(mkdir_ok)
    \/ \E launched \in BOOLEAN, rc \in 0..MaxExitCode, out \in Outputs :
           Transfer(launched, rc, out)
    \/ \E t2 \in Times, outcome \in CompressOutcomes : Rotate(t2, outcome)
    \/ \E outcome \in {"ok", "stat_fails", "write_fails"} : Account(outcome)
    \/ \E reindexed \in BOOLEAN : Reindex(reindexed)
    \/ \E config_ok \in BOOLEAN, mail_server \in MailServers,
          connect \in ConnectOutcomes, login \in LoginOutcomes,
          sendmail \in SendmailOutcomes :
           Send(config_ok, mail_server, connect, login, sendmail)
    \/ Exit

SpecMain == MainInit /\ [][MainNext]_vars

\* The process keeps running: a step that can be taken is taken.
SpecMainFair == MainInit /\ [][MainNext]_vars /\ WF_vars(MainNext)

(***************************************************************************)
(* Reading a script back: the lines and the pieces the claims speak of.    *)
(***************************************************************************)
Written == ftpscript # NoFile

\* The texts of the script's lines.
LineTexts(script) == [i \in 1..Len(script) |-> Text(script[i])]

IsMirrorLine(line) == Head(line) = "mirror "
IsVerifyLine(line) == Head(line) = "set ssl:verify-certificate "

MirrorIndex(script) == CHOOSE i \in 1..Len(script) : IsMirrorLine(script[i])

\* The mirror command ends with  '<source>' '<target>'  and the option string is
\* what stands between the command word and these.
OptionFrags(line) == SubSeq(line, 2, Len(line) - 5)
SourceOf(line) == line[Len(line) - 3]
TargetOf(line) == line[Len(line) - 1]

\* The values that follow the flag fragments of `flagset`, in order.
RECURSIVE ValuesAfter(_, _)
ValuesAfter(flagset, frags) ==
    IF Len(frags) < 2 THEN <<>>
    ELSE IF Head(frags) \in flagset
         THEN <<frags[2]>> \o ValuesAfter(flagset, Tail(Tail(frags)))
         ELSE ValuesAfter(flagset, Tail(frags))

IncFlag == " --include-glob "
ExcFlag == " --exclude-glob "
ParFlag == " --parallel="

\* The positions of the fragments of frags that are in flagset.
Positions(flagset, frags) == {i \in 1..Len(frags) : frags[i] \in flagset}

\* The same command line with the direction flag given or left out.
ToggleReverse(cmd) ==
    [cmd EXCEPT !.flags = IF "--reverse" \in @ THEN @ \ {"--reverse"}
                          ELSE @ \cup {"--reverse"}]

\* The script of the run that differs from this one only in the direction flag.
OtherDirection == script_lines(parse_args(ToggleReverse(argv)))

SameButMirrorLine(s, t) ==
    /\ Len(s) = Len(t)
    /\ MirrorIndex(s) = MirrorIndex(t)
    /\ \A i \in 1..Len(s) : i # MirrorIndex(s) => s[i] = t[i]

Swapped(m, n) == SourceOf(m) = TargetOf(n) /\ TargetOf(m) = SourceOf(n)

\* opts with the one fragment "R" taken out.
WithoutR(opts) == SelectSeq(opts, LAMBDA f : f # "R")

(***************************************************************************)
(* C5.                                                                     *)
(***************************************************************************)
\* C5 (as claimed): the scripts of two runs that differ only in the direction
\* flag differ only in the swapped source and destination of the mirror command;
\* every other line and the option string are identical.
C5_OnlySwapped ==
    Written =>
        LET m == ftpscript[MirrorIndex(ftpscript)]
            n == OtherDirection[MirrorIndex(OtherDirection)]
        IN  /\ SameButMirrorLine(ftpscript, OtherDirection)
            /\ Swapped(m, n)
            /\ Text(OptionFrags(m)) = Text(OptionFrags(n))

\* C5 (amended): the scripts of two runs that differ only in the direction flag
\* have all lines but the mirror command identical; in the mirror command source
\* and destination are swapped and the option string of the upload run carries
\* the one extra flag letter R, directly after -vvv and the letters e and n; the
\* rest of the option string is identical.
C5_SwappedAndR ==
    Written =>
        LET up == IF "--reverse" \in argv.flags THEN ftpscript ELSE OtherDirection
            down == IF "--reverse" \in argv.flags THEN OtherDirection ELSE ftpscript
            m == up[MirrorIndex(up)]
            n == down[MirrorIndex(down)]
            k == CHOOSE i \in 1..Len(OptionFrags(m)) : OptionFrags(m)[i] = "R"
        IN  /\ SameButMirrorLine(up, down)
            /\ Swapped(m, n)
            /\ Cardinality(Positions({"R"}, OptionFrags(m))) = 1
            /\ Positions({"R"}, OptionFrags(n)) = {}
            /\ WithoutR(OptionFrags(m)) = OptionFrags(n)
            /\ \A i \in 1..(k - 1) : OptionFrags(m)[i] \in {"-vvv", "e", "n"}
            /\ \A i \in (k + 1)..Len(OptionFrags(m)) :
                   OptionFrags(m)[i] \notin {"-vvv", "e", "n"}

C5_Witness ==
    /\ Written
    /\ "--reverse" \in argv.flags
    /\ "--erase" \in argv.flags
    /\ argv.exclude_glob # <<>>
    /\ SourceOf(ftpscript[MirrorIndex(ftpscript)]) # TargetOf(ftpscript[MirrorIndex(ftpscript)])

(***************************************************************************)
(* C6.                                                                     *)
(***************************************************************************)
GlobValues == ValuesAfter({IncFlag, ExcFlag}, OptionFrags(ftpscript[MirrorIndex(ftpscript)]))

GlobsBeforeParallel ==
    LET opts == OptionFrags(ftpscript[MirrorIndex(ftpscript)])
    IN  \A i \in Positions({IncFlag, ExcFlag}, opts), j \in Positions({ParFlag}, opts) :
            i < j

\* C6 (as claimed): in the option string the include patterns come in the order
\* given, then the exclude patterns in the order given, then the parallelism
\* flag, one flag per pattern.
C6_IncludeFirst ==
    Written =>
        /\ GlobValues = argv.include_glob \o argv.exclude_glob
        /\ GlobsBeforeParallel

\* C6 (amended): in the option string the exclude patterns come in the order
\* given, then the include patterns in the order given, then the parallelism
\* flag; each pattern yields exactly one flag occurrence.
C6_ExcludeFirst ==
    Written =>
        /\ GlobValues = argv.exclude_glob \o argv.include_glob
        /\ GlobsBeforeParallel
        /\ Cardinality(Positions({IncFlag, ExcFlag},
                                 OptionFrags(ftpscript[MirrorIndex(ftpscript)])))
               = Len(argv.exclude_glob) + Len(argv.include_glob)

C6_Witness ==
    /\ Written
    /\ Len(argv.exclude_glob) = 2 /\ argv.exclude_glob[1] # argv.exclude_glob[2]
    /\ Len(argv.include_glob) = 2 /\ argv.include_glob[1] # argv.include_glob[2]
    /\ argv.parallel # ""

(***************************************************************************)
(* C7.                                                                     *)
(***************************************************************************)
\* C7: every --exclude-glob pattern is written after an exclude-glob flag and
\* never after an include-glob flag, and every --include-glob pattern is written
\* after an include-glob flag.
C7_ExcludeIsExclude ==
    Written =>
        LET opts == OptionFrags(ftpscript[MirrorIndex(ftpscript)])
        IN  /\ ValuesAfter({ExcFlag}, opts) = argv.exclude_glob
            /\ ValuesAfter({IncFlag}, opts) = argv.include_glob

(***************************************************************************)
(* C8.                                                                     *)
(***************************************************************************)
AutoConfirmText == "set sftp:auto-confirm yes"

AutoConfirmAt == {i \in 1..Len(ftpscript) : Text(ftpscript[i]) = AutoConfirmText}

\* C8: the script holds the auto-confirm line exactly when --secure is given
\* and --ssl-verify is not; when present it stands once, directly after the
\* ssl:verify-certificate line and directly before the mirror command; when
\* absent the mirror command directly follows the verification line.
C8_AutoConfirm ==
    Written =>
        LET wanted == "--secure" \in argv.flags /\ "--ssl-verify" \notin argv.flags
            v == CHOOSE i \in 1..Len(ftpscript) : IsVerifyLine(ftpscript[i])
        IN  /\ (AutoConfirmAt # {}) <=> wanted
            /\ Cardinality({i \in 1..Len(ftpscript) : IsVerifyLine(ftpscript[i])}) = 1
            /\ IF wanted
               THEN /\ AutoConfirmAt = {v + 1}
                    /\ MirrorIndex(ftpscript) = v + 2
               ELSE MirrorIndex(ftpscript) = v + 1

C8_Witness ==
    /\ Written
    /\ "--secure" \in argv.flags /\ "--ssl-verify" \notin argv.flags
    /\ AutoConfirmAt # {}

(***************************************************************************)
(* C9.                                                                     *)
(***************************************************************************)
\* C9 (as claimed): for site ftp.example.com, remote /pub, local ./mirror,
\* anonymous, no options, the script is exactly the five lines below.
C9_ExampleAsClaimed ==
    (Written /\ argv = ExampleCommand) =>
        LineTexts(ftpscript) =
            << "open ftp://ftp.example.com",
               "user ",
               "set ssl:verify-certificate no",
               "mirror -vvv '/pub' './mirror'",
               "exit" >>

\* C9 (amended): for that invocation the script is exactly the five lines
\* below: the open line ends with the blank that precedes the (empty) port
\* option, and the local path is written normalised, 'mirror'.
C9_ExampleAsWritten ==
    (Written /\ argv = ExampleCommand) =>
        LineTexts(ftpscript) =
            << "open ftp://ftp.example.com ",
               "user ",
               "set ssl:verify-certificate no",
               "mirror -vvv '/pub' 'mirror'",
               "exit" >>

C9_Witness == Written /\ argv = ExampleCommand

(***************************************************************************)
(* C10.                                                                    *)
(***************************************************************************)
UnitLabels == <<"bytes", "KiB", "MiB", "GiB", "TiB", "PiB", "EiB", "ZiB", "YiB">>

\* C10: for every byte count >= 0 best_unit_size returns a result with s < 1024,
\* with the unit label at index floor(log1024(bytes)) of the nine labels (a count
\* of k base-1024 digits has index k - 1) and with b the input; it returns such a
\* result for counts of 1024^9 and above too.
C10_BestUnit ==
    size.called =>
        /\ size.returned = "dict"
        /\ size.s_int < 1024
        /\ Len(bytes_size) <= Len(UnitLabels) => size.u = UnitLabels[Len(bytes_size)]
        /\ size.b = bytes_size

C10_Witness == size.called /\ Len(bytes_size) = MaxDigits


(***************************************************************************)
(* C1.                                                                     *)
(***************************************************************************)
\* The archives of directory d, and those of weekday wd among them.
ArchivesOf(files, d) == {f \in files : f.name.base = d}
SnapshotsOf(files, d, wd) == {f \in ArchivesOf(files, d) : f.name.wd = wd}

\* C1: once a call of compress() has completed there is exactly one archive of
\* that directory whose name carries the call's weekday, the one the call has
\* just made, and the directory has at most 7 archives.
C1_OneSnapshotPerWeekday ==
    (last.called /\ last.outcome = "ok") =>
        /\ SnapshotsOf(gzs, last.dir2gz, last.wd)
               = {[name |-> last.name, intact |-> TRUE, made |-> calls]}
        /\ Cardinality(ArchivesOf(gzs, last.dir2gz)) <= 7

(***************************************************************************)
(* C2.                                                                     *)
(***************************************************************************)
\* C2: when a snapshot of the call's weekday existed before a call of
\* compress() and the creation of the new archive fails part-way, the snapshots
\* that existed are still there, neither deleted nor overwritten, so an intact
\* one remains.
C2_IntactSnapshotSurvives ==
    (last.called /\ last.outcome = "add_fails") =>
        LET had == {f \in SnapshotsOf(last.before, last.dir2gz, last.wd) : f.intact}
        IN  had # {} => (had \subseteq gzs)

\* mirror() has ended: it returned the tool's exit code, or None after an
\* exception caught by @logger.catch().
MirrorReturned == mir_res # Unset

\* C3: on every path by which mirror() ends after the script file was
\* written (tool exit 0 or non-zero, launch failure, rotation failure,
\* accounting failure), the file 'ftpscript' no longer exists when mirror()
\* returns.
C3_ScriptGone == MirrorReturned => ftpscript = NoFile

\* C4: for every run of main() that reached the transfer phase, the process
\* exit status equals the exit code of the transfer tool.
C4_ExitStatus ==
    (pc = "exited" /\ returncode # Unset) => exit_status = returncode

(***************************************************************************)
(* C11.                                                                    *)
(***************************************************************************)
\* The titles mirror() and main() give to sections.
Titles == {"Script", "Start time", "lftp output", "Rotate compressed copies",
           "Disk space used", "End Time", "mail error"}

\* block(title, "") and list(title, []) leave the accumulated log as it is,
\* for every title.
EmptyContentSkipped ==
    \A title \in Titles :
        /\ block(log, title, <<>>) = log
        /\ list(log, title, <<>>) = log

\* C11: in every Logger state block(title, "") and list(title, []) leave the
\* accumulated log unchanged, and every step of a run only extends the log,
\* the previous log staying a prefix of the new one.
C11_Logger == []EmptyContentSkipped /\ [][IsPrefix(log, log')]_vars

\* C11, both parts for the sections of a run: lftp printed nothing, so its
\* section was skipped, while the sections before it are in the log.
C11_Witness ==
    /\ pc = "rotate"
    /\ Len(log) >= 3
    /\ \A i \in 1..Len(log) : log[i].title # "lftp output"

(***************************************************************************)
(* C12.                                                                    *)
(***************************************************************************)
\* C12: whatever the mail transport failures (connect, login, sendmail),
\* Logger.send returns normally, never raising, the failure being described
\* in a 'mail error' section of the log.
C12_SendNeverRaises ==
    /\ send_res # "raised"
    /\ send_res = "returned" =>
           \/ log[Len(log)].title = "mail error"
           \/ \A i \in 1..Len(log) : log[i].title # "mail error"

(***************************************************************************)
(* C13.                                                                    *)
(***************************************************************************)
\* The descriptor of the interactive invocation equivalent to a section.
Equivalent(sect) == parse_args(shell_parse(Interactive(sect)).cmd)

\* C13: a well-formed section, normalised through parse_parms and the shell
\* parser, yields the descriptor of the equivalent interactive invocation:
\* site, remote and local the positionals, port the -p value, login the user
\* and the decoded password, anonymous for blank user and password with -a.
C13_SameDescriptor ==
    (argv.kind = "section" /\ WellFormed(argv)) => args = Equivalent(argv)

(***************************************************************************)
(* C14.                                                                    *)
(***************************************************************************)
\* C14: a failure normalising one section does not keep the following
\* sections from running: when the run has ended no well-formed section of
\* the config file is left that was never taken.
C14_LaterSectionsRun ==
    pc = "exited" => \A i \in 1..Len(sections) : ~WellFormed(sections[i])

(***************************************************************************)
(* C18.                                                                    *)
(***************************************************************************)
\* C18: in a run over several sections sharing one Logger the log file holds
\* each section's records once and in section order: what the file holds is
\* a prefix of the log accumulated, nothing is written a second time.
C18_EachRecordOnce == IsPrefix(logfile, log)

(***************************************************************************)
(* C15.                                                                    *)
(***************************************************************************)
\* The titles of the sections of a log.
TitlesOf(l) == {l[i].title : i \in 1..Len(l)}

\* mirror() has finalized: the log, with the tool output, the 'Disk space
\* used' block and the 'End Time' block, is in the log file, and the exit
\* code of the tool is what mirror() returned.
Finalized ==
    /\ pc = "after_mirror"
    /\ mir_res = returncode
    /\ logfile = log
    /\ {"Disk space used", "End Time"} \subseteq TitlesOf(logfile)

\* C15: for every exit code of the transfer tool, zero or not, the run goes
\* on from the transfer through the rotation to the disk accounting, the
\* accounting step persists the log (tool output, 'Disk space used', 'End
\* Time') and returns the tool's exit code, and the tool is never started a
\* second time.
C15_NonZeroNotFatal ==
    /\ (pc = "rotate") ~> (pc = "account")
    /\ [][(pc \in {"rotate", "account"}) => (returncode' = returncode)]_vars
    /\ [](pc = "account" => ENABLED (Account("ok") /\ Finalized'))
    /\ [](launches <= 1)

\* C15: lftp ended with a non-zero exit code and mirror() has finalized,
\* returning that code.
C15_Witness ==
    /\ Finalized
    /\ returncode # PyInt(0)
    /\ "lftp output" \in TitlesOf(logfile)

(***************************************************************************)
(* C16.                                                                    *)
(***************************************************************************)
\* C16: reindex_cloud is invoked at the end of a run only when the flag
\* --update-cloud was given.
C16_ReindexOnlyWhenAsked ==
    reindex_res \in {"done", "failed"} => "--update-cloud" \in argv.flags

(***************************************************************************)
(* C17.                                                                    *)
(***************************************************************************)
\* C17: when a recipient list is present the mail step is entered after
\* mirror() has returned, whatever became of the re-index step, and neither
\* step changes the log file already written nor what mirror() returned.
C17_IndependentSteps ==
    /\ []((pc \in {"exit", "exited"} /\ MirrorReturned /\ args.to_addrs # <<>>)
             => send_res # "unset")
    /\ [][(pc \in {"after_mirror", "send"})
             => (logfile' = logfile /\ mir_res' = mir_res)]_vars

\* C17: the re-index failed and the log was mailed all the same, the log file
\* written by mirror() being as it was.
C17_Witness ==
    /\ reindex_res = "failed"
    /\ send_res = "returned"
    /\ logfile # <<>>
    /\ logfile = SubSeq(log, 1, Len(logfile))

(***************************************************************************)
(* C20.                                                                    *)
(***************************************************************************)
\* C20: a call of compress() for directory A leaves every archive of another
\* directory B as it was, also when A's base name is a prefix of B's and B
\* has a snapshot of the same weekday.
C20_OtherDirectoriesUntouched ==
    last.called =>
        \A f \in last.before : f.name.base # last.dir2gz => f \in gzs

(***************************************************************************)
(* C19.                                                                    *)
(***************************************************************************)
\* C19: the total of the disk usage summary is the size of the local tree
\* plus the sizes of the archives of that local directory (the one compress()
\* has just made among them) plus the size of the log file, for every local
\* path and working directory.
C19_TotalBytes ==
    (last.called /\ size.called) =>
        bytes_size = <<last.local_size
                         + SumSizes(ArchivesOf(gzs, last.dir2gz))
                         + last.log_size>>

====
